---- MODULE Spec2Model ----
(***************************************************************************)
(* Verification model of the ai-health wellness application:               *)
(*   - the screen-flow controller and session state of App                 *)
(*     (src/components/DesignSystem.tsx),                                  *)
(*   - the hydration cooldown timer of App,                                *)
(*   - the memoization cache and the JSON normalizer of the service layer  *)
(*     (src/unnamed/part_001).                                             *)
(*                                                                         *)
(* React scheduling assumed throughout: an event handler or a promise      *)
(* callback runs to completion, its state updates are applied together     *)
(* (automatic batching), and the passive effects of the resulting render   *)
(* run before the next event is handled.                                   *)
(***************************************************************************)
EXTENDS Integers, Sequences, FiniteSets, Bags, TLC

VARIABLES
    screen,               \* useState<ScreenName>                       (App)
    activeTab,            \* useState('Today'): the tab last chosen in BottomNav
    effectPending,        \* the render that entered GENERATING is committed, its effect not yet run
    isAuthenticated,      \* userState.isAuthenticated
    isPremium,            \* userState.isPremium
    generationsLeft,      \* userState.generationsLeft
    healthMode,           \* userState.healthMode
    plan,                 \* userState.plan (Null or a DailyPlan)
    completedMealIndices, \* userState.progress.completedMealIndices
    junkCalories,         \* userState.progress.junkCalories
    molecularSynergyScore,\* userState.progress.molecularSynergyScore
    genInFlight,          \* pending generateDailyPlan promises, each with the closure it captured
    verifyingLocation,    \* useState verifyingLocation: a handleVerifyLocation call is pending
    isAnalyzingWork,      \* useState isAnalyzingWork: a handleCorporateLogin call is pending
    analyzingHealth,      \* useState analyzingHealth: a handleHealthAnalysis call is pending
    mealEdit,             \* pending EditMealModal.handleRegenerate, with the closure it captured
    crashed,              \* a render threw: the component tree is unmounted
    loggedCalories,       \* history: total calories of the foods passed to handleLogFood
    lastGeneration,       \* history: how the latest settled generateDailyPlan promise ended
    \* --- hydration timer and calendar (App)
    waterIntake,          \* userState.progress.waterIntake
    nextHydrationSet,     \* userState.progress.nextHydrationTime is defined
    diff,                 \* nextHydrationTime - now in ms, 0 once the time has passed
    untilTick,            \* ms until the setInterval callback of the hydration effect is due
    isHydrationLocked,    \* useState isHydrationLocked: the hydrate button is disabled
    today,                \* calendar day of the clock
    lastResetDate,        \* calendar day of userState.progress.lastResetDate
    \* --- memoized adapters (service layer)
    hasApiKey,            \* apiKey is a non-empty string
    globalCache,          \* globalCache: Map<string, any>, as a set of [key, value] entries
    pending,              \* the bag of adapter calls at await ai.models.generateContent
    outbound,             \* history: the bag of cache keys of the generateContent requests issued
    lastCall,             \* history: the latest adapter call that returned, with its result
    \* --- response normalizer (service layer)
    responseText,         \* response.text, the argument of a call of cleanAndParseJSON
    parsed,               \* what that call returned
    \* --- LoginScreen / SignUpScreen and the identity fields of userState
    authInstance,         \* which mount of LoginScreen / SignUpScreen is on screen
    authLoading,          \* loading of the mounted instance
    authError,            \* error of the mounted instance, the inline message
    authPending,          \* signIn / signUp calls awaiting the backend
    uid,                  \* userState.uid
    userName,             \* userState.name
    isLocalGuest,         \* userState.isLocalGuest
    signOut               \* the signOut() promise of handleLogout: none, pending or how it settled

appVars == <<screen, activeTab, effectPending, isAuthenticated, isPremium, generationsLeft, healthMode,
             plan, completedMealIndices, junkCalories, molecularSynergyScore, genInFlight,
             verifyingLocation, isAnalyzingWork, analyzingHealth, mealEdit, crashed,
             loggedCalories, lastGeneration>>

hydVars == <<waterIntake, nextHydrationSet, diff, untilTick, isHydrationLocked, today,
             lastResetDate>>

cacheVars == <<hasApiKey, globalCache, pending, outbound, lastCall>>

jsonVars == <<responseText, parsed>>

authVars == <<authInstance, authLoading, authError, authPending, uid, userName, isLocalGuest,
              signOut>>

vars == <<appVars, hydVars, cacheVars, jsonVars, authVars>>

\* the variables that no operation of the screen flow writes
nonAppVars == <<hydVars, cacheVars, jsonVars, authVars>>

\* the variables that no handler of the screen flow but onTabChange writes
otherVars == <<activeTab, nonAppVars>>

(***************************************************************************)
(* Bounds of the model.                                                    *)
(***************************************************************************)
MaxInFlight == 2      \* generateDailyPlan promises pending at once
MaxJunk == 2          \* cap on the junkCalories counter
MaxWater == 2         \* cap on the waterIntake counter
MaxDay == 1           \* last calendar day the clock reaches
MaxIngredients == 2   \* length of an ingredient list
MaxRequests == 2      \* generateContent requests issued by the adapters
MaxTextLen == 5       \* tokens of a response text
MaxLinesLen == 7      \* characters of a pipe-delimited response text
MaxMounts == 4        \* mounts of LoginScreen / SignUpScreen

(***************************************************************************)
(* Session constants.                                                      *)
(***************************************************************************)
InitialGenerations == 3

TICK_MS == 1000                    \* period of the hydration setInterval
HOUR_MS == 60 * 60 * 1000          \* cooldown added by handleHydrate

ScreenName == {"WELCOME", "LOGIN", "SIGNUP", "LANGUAGE", "LOCATION", "MODE_SELECTION",
               "ENTERPRISE_LOGIN", "CONSUMER_LOGIN", "GOALS", "HEALTH_MODE_SELECT",
               "MEDICINE", "MEDICINE_VERIFY", "PREFERENCES", "GENERATING", "TODAY",
               "PROGRESS", "UPGRADE"}

HealthMode == {"GENERAL", "DISEASE_FOCUSED", "MOLECULE_MATCH"}

LockedModes == {"DISEASE_FOCUSED", "MOLECULE_MATCH"}


(***************************************************************************)
(* Strings that the code parses are sequences of characters.               *)
(***************************************************************************)
Digits == {"0", "1", "2"}

DigitVal(c) == IF c = "0" THEN 0 ELSE IF c = "1" THEN 1 ELSE 2

RECURSIVE LeadingDigits(_, _)
LeadingDigits(s, acc) ==
    IF s = <<>> \/ Head(s) \notin Digits THEN acc
    ELSE LeadingDigits(Tail(s), acc * 10 + DigitVal(Head(s)))

\* parseInt(s): the number spelled by the leading digits of s, NaN when there are none
parseInt(s) ==
    IF s = <<>> \/ Head(s) \notin Digits
    THEN [isNaN |-> TRUE, value |-> 0]
    ELSE [isNaN |-> FALSE, value |-> LeadingDigits(s, 0)]

\* x || 0 on the result of parseInt
OrZero(x) == IF x.isNaN THEN 0 ELSE x.value

(***************************************************************************)
(* Meals and plans returned by the generative backend.  A string field is  *)
(* a sequence of characters; an absent optional string is the empty        *)
(* sequence (the code only tests such fields for truthiness).              *)
(***************************************************************************)
Meal(type, title, calories) == [type |-> type, title |-> title, calories |-> calories]

\* userState.plan === null
NoPlan == [isNull |-> TRUE]

PlanA == [hasMeals |-> TRUE,
          meals |-> << Meal("Breakfast", "Idli", <<"1">>), Meal("Lunch", "Dal", <<>>) >>,
          synergy |-> <<>>]

PlanB == [hasMeals |-> TRUE,
          meals |-> << Meal("Snack", "Nuts", <<"2", "k">>), Meal("Snack", "Fruit", <<"k", "1">>) >>,
          synergy |-> << 50, 75 >>]

\* a JSON object without a meals array, e.g. {} from a failed parse
PlanNoMeals == [hasMeals |-> FALSE, meals |-> <<>>, synergy |-> <<>>]

PlanResponses == {PlanA, PlanB, PlanNoMeals}

\* meals returned by regenerateMealOption
MealResponses == {Meal("Breakfast", "Poha", <<"2">>), Meal("Snack", "Chana", <<>>)}

\* NutritionFact.calories strings produced by the food analysers
FactCalories == {<<"1">>, <<"1", "k">>, <<"k">>}

RECURSIVE SumSeq(_)
SumSeq(s) == IF s = <<>> THEN 0 ELSE Head(s) + SumSeq(Tail(s))

\* Math.floor(reduce(a + b.matchScore, 0) / length)
SynergyAverage(scores) == SumSeq(scores) \div Len(scores)

(***************************************************************************)
(* Pure parts of the handlers.                                             *)
(***************************************************************************)
Includes(list, x) == \E k \in 1..Len(list) : list[k] = x

ToggleMealAppendOnly(list, index) == Append(list, index)

\* the list handleToggleMeal(index) stores
ToggleMeal(list, index) ==
    IF Includes(list, index)
    THEN SelectSeq(list, LAMBDA i : i # index)
    ELSE Append(list, index)

\* userState.plan?.meals[idx] is a meal
MealAt(p, idx) == p # NoPlan /\ p.hasMeals /\ idx >= 0 /\ idx < Len(p.meals)

RECURSIVE ConsumedFrom(_, _, _)
ConsumedFrom(total, list, p) ==
    IF list = <<>> THEN total
    ELSE LET idx == Head(list)
             cal == p.meals[idx + 1].calories
             add == IF MealAt(p, idx)
                    THEN OrZero(parseInt(IF cal = <<>> THEN <<"0">> ELSE cal))
                    ELSE 0
         IN  ConsumedFrom(total + add, Tail(list), p)

\* getConsumedCalories() on a session state
ConsumedCalories(junk, list, p) == ConsumedFrom(junk, list, p)

getConsumedCalories == ConsumedCalories(junkCalories, completedMealIndices, plan)

\* getConsumedCalories() throws: meals[idx] is read on a plan object without meals
ConsumedThrows(list, p) == list # <<>> /\ p # NoPlan /\ ~p.hasMeals

\* the meals handleMealUpdate(newMeal) stores, computed from the plan of its closure
UpdatedMeals(meals, newMeal) ==
    [k \in 1..Len(meals) |-> IF meals[k].type = newMeal.type THEN newMeal ELSE meals[k]]

\* rendering TODAY or PROGRESS throws when the plan object has no meals array
RenderThrowsOnNull(scr, p) ==
    /\ scr \in {"TODAY", "PROGRESS"}
    /\ (p = NoPlan \/ ~p.hasMeals)

RenderThrows(scr, p) ==
    /\ scr \in {"TODAY", "PROGRESS"}
    /\ p # NoPlan
    /\ ~p.hasMeals

(***************************************************************************)
(* Session state and screen flow of App.                                   *)
(***************************************************************************)
\* what the GENERATING effect's promise callbacks read from their closure
Closures == [isPremium : BOOLEAN, generationsLeft : 0..InitialGenerations]

NoEdit == [pending |-> FALSE]

PendingGenerations ==
    LET RECURSIVE Count(_)
        Count(S) == IF S = {} THEN 0
                    ELSE LET c == CHOOSE x \in S : TRUE
                         IN  genInFlight[c] + Count(S \ {c})
    IN  Count(Closures)

\* the hydration fields of the initial userState; the interval is armed on mount
HydrationIdle ==
    /\ waterIntake = 0
    /\ nextHydrationSet = FALSE
    /\ diff = 0
    /\ untilTick = TICK_MS
    /\ isHydrationLocked = FALSE
    /\ today = 0
    /\ lastResetDate = 0

(***************************************************************************)
(* The memoized adapters of the service layer.  Strings are sequences of   *)
(* characters; the literal prefix of a key is one element.                 *)
(***************************************************************************)
\* UTF-16 code unit of a character
Code(c) ==
    CASE c = "," -> 44
      [] c = "B" -> 66
      [] c = "P" -> 80
      [] c = "_" -> 95
      [] c = "a" -> 97
      [] c = "b" -> 98
      [] c = "p" -> 112

LowerChar(c) == IF c = "B" THEN "b" ELSE IF c = "P" THEN "p" ELSE c

\* String.prototype.toLowerCase
toLowerCase(str) == [k \in 1..Len(str) |-> LowerChar(str[k])]

\* a < b as the default comparator of Array.prototype.sort orders strings
RECURSIVE StrLess(_, _)
StrLess(a, b) ==
    IF b = <<>> THEN FALSE
    ELSE IF a = <<>> THEN TRUE
    ELSE IF Code(Head(a)) # Code(Head(b)) THEN Code(Head(a)) < Code(Head(b))
    ELSE StrLess(Tail(a), Tail(b))

RECURSIVE Insert(_, _)
Insert(x, sorted) ==
    IF sorted = <<>> THEN << x >>
    ELSE IF StrLess(Head(sorted), x) \/ Head(sorted) = x
         THEN << Head(sorted) >> \o Insert(x, Tail(sorted))
         ELSE << x >> \o sorted

\* [...list].sort()
RECURSIVE Sort(_)
Sort(list) == IF list = <<>> THEN <<>> ELSE Insert(Head(list), Sort(Tail(list)))

\* list.join(',')
RECURSIVE Join(_)
Join(list) ==
    IF list = <<>> THEN <<>>
    ELSE IF Len(list) = 1 THEN Head(list)
    ELSE Head(list) \o << "," >> \o Join(Tail(list))

\* cacheKey of checkIngredientAvailability
IngredientKeyUnsorted(city, ingredients) ==
    << "ing_check_" >> \o toLowerCase(city) \o << "_" >> \o Join(ingredients)

IngredientKey(city, ingredients) ==
    << "ing_check_" >> \o toLowerCase(city) \o << "_" >> \o Join(Sort(ingredients))

\* cacheKey of findDeliveryPartners
PartnersKey(city, type) ==
    << "partners_" >> \o toLowerCase(city) \o << "_" >> \o << type >>

CacheKey(adapter, city, arg) ==
    IF adapter = "checkIngredientAvailability"
    THEN IngredientKey(city, arg)
    ELSE PartnersKey(city, arg)

Cities == {<< "P" >>}

IngredientNames == {<< "a" >>, << "B" >>}

SeqsUpTo(S, n) == UNION {[1..k -> S] : k \in 0..n}

IngredientLists == SeqsUpTo(IngredientNames, MaxIngredients)

PartnerTypes == {"GROCERY", "FOOD"}

\* the inputs of the two adapters
AdapterCalls ==
    {[adapter |-> "checkIngredientAvailability", city |-> c, arg |-> l] :
        c \in Cities, l \in IngredientLists}
    \cup {[adapter |-> "findDeliveryPartners", city |-> c, arg |-> t] :
        c \in Cities, t \in PartnerTypes}

CacheKeys == {CacheKey(call.adapter, call.city, call.arg) : call \in AdapterCalls}

\* the generateContent requests issued so far
Requests == BagCardinality(outbound)

\* globalCache.has / get / set
CacheHas(key) == \E e \in globalCache : e.key = key

CacheGet(key) == (CHOOSE e \in globalCache : e.key = key).value

\* (a cache bounded to one entry, which a Map is not)
CacheSetEvicting(key, value) == {[key |-> key, value |-> value]}
CacheSet(key, value) ==
    {e \in globalCache : e.key # key} \cup {[key |-> key, value |-> value]}

\* what an adapter returns for a request that ended as outcome ("json",
\* "malformed" or "throw"): the parsed response to the prompt built from call,
\* the {} of cleanAndParseJSON, or the adapter's fallback
ResultOf(call, outcome) ==
    [kind |-> IF outcome = "json" THEN "data"
              ELSE IF outcome = "malformed" THEN "empty" ELSE "fallback",
     for |-> call]

NoCall == [adapter |-> "none"]

\* the service layer before any adapter call, with an API key configured
CacheIdle ==
    /\ hasApiKey = TRUE
    /\ globalCache = {}
    /\ pending = EmptyBag
    /\ outbound = EmptyBag
    /\ lastCall = NoCall

NotParsed == [done |-> FALSE]

\* the normalizer before any call
JsonIdle ==
    /\ responseText = <<>>
    /\ parsed = NotParsed

NoUid == "undefined"

\* LoginScreen as first mounted, and the identity fields of the initial userState
AuthIdle ==
    /\ authInstance = 1
    /\ authLoading = FALSE
    /\ authError = ""
    /\ authPending = {}
    /\ uid = NoUid
    /\ userName = ""
    /\ isLocalGuest = FALSE
    /\ signOut = "none"

\* the state of App after its first render
AppLoaded ==
    /\ screen = "LOGIN"
    /\ effectPending = FALSE
    /\ isAuthenticated = FALSE
    /\ isPremium = FALSE
    /\ generationsLeft = InitialGenerations
    /\ healthMode = "GENERAL"
    /\ plan = NoPlan
    /\ completedMealIndices = <<>>
    /\ junkCalories = 0
    /\ molecularSynergyScore = 0
    /\ genInFlight = [c \in Closures |-> 0]
    /\ verifyingLocation = FALSE
    /\ isAnalyzingWork = FALSE
    /\ analyzingHealth = FALSE
    /\ mealEdit = NoEdit
    /\ crashed = FALSE
    /\ activeTab = "Today"
    /\ loggedCalories = 0
    /\ lastGeneration = "none"

InitApp ==
    /\ AppLoaded
    /\ HydrationIdle
    /\ CacheIdle
    /\ JsonIdle
    /\ AuthIdle

\* the UI handles an event: the tree is mounted and no effect is waiting to run
Idle == ~crashed /\ ~effectPending

sessionVars == <<isAuthenticated, isPremium, generationsLeft, healthMode, plan,
                 completedMealIndices, junkCalories, molecularSynergyScore, loggedCalories>>

asyncVars == <<genInFlight, verifyingLocation, isAnalyzingWork, analyzingHealth, mealEdit>>

\* setScreen(to) from a handler that touches nothing else
Navigate(from, to) ==
    /\ Idle
    /\ screen = from
    /\ screen' = to
    /\ crashed' = RenderThrows(to, plan)
    /\ UNCHANGED otherVars
    /\ UNCHANGED <<effectPending, lastGeneration, sessionVars, asyncVars>>

\* LoginScreen / SignUpScreen onSuccess, onGuest, WELCOME "Start Your Journey":
\* the writes they share (uid, name and isLocalGuest are followed in SpecAuth
\* and SpecLogout)
Authenticate ==
    /\ Idle
    /\ screen \in {"LOGIN", "SIGNUP", "WELCOME"}
    /\ isAuthenticated' = TRUE
    /\ screen' = "LANGUAGE"
    /\ UNCHANGED otherVars
    /\ UNCHANGED <<effectPending, lastGeneration, isPremium, generationsLeft, healthMode, plan,
                   completedMealIndices, junkCalories, molecularSynergyScore,
                   loggedCalories, asyncVars, crashed>>

\* setScreen calls of the onboarding screens that change no session field modelled here
Onboarding ==
    \/ Navigate("LOGIN", "SIGNUP")
    \/ Navigate("SIGNUP", "LOGIN")
    \/ Navigate("WELCOME", "LOGIN")
    \/ Navigate("LANGUAGE", "WELCOME")
    \/ Navigate("LANGUAGE", "LOCATION")
    \/ Navigate("LOCATION", "LANGUAGE")
    \/ Navigate("MODE_SELECTION", "LOCATION")
    \/ Navigate("MODE_SELECTION", "CONSUMER_LOGIN")
    \/ Navigate("MODE_SELECTION", "ENTERPRISE_LOGIN")
    \/ Navigate("CONSUMER_LOGIN", "MODE_SELECTION")
    \/ Navigate("CONSUMER_LOGIN", "GOALS")
    \/ Navigate("ENTERPRISE_LOGIN", "MODE_SELECTION")
    \/ Navigate("GOALS", "MODE_SELECTION")
    \/ Navigate("GOALS", "HEALTH_MODE_SELECT")
    \/ Navigate("HEALTH_MODE_SELECT", "GOALS")
    \/ Navigate("MEDICINE", "HEALTH_MODE_SELECT")
    \/ Navigate("MEDICINE_VERIFY", "MEDICINE")
    \/ Navigate("MEDICINE_VERIFY", "PREFERENCES")
    \/ Navigate("PREFERENCES", "MEDICINE_VERIFY")

\* handleVerifyLocation up to its await (LOCATION "Verify" button)
VerifyLocationStart ==
    /\ Idle
    /\ screen = "LOCATION"
    /\ ~verifyingLocation
    /\ verifyingLocation' = TRUE
    /\ UNCHANGED otherVars
    /\ UNCHANGED <<screen, effectPending, lastGeneration, sessionVars, genInFlight, isAnalyzingWork,
                   analyzingHealth, mealEdit, crashed>>

\* handleVerifyLocation after verifyLocationEntry settles
VerifyLocationDone ==
    /\ Idle
    /\ verifyingLocation
    /\ verifyingLocation' = FALSE
    /\ screen' = "MODE_SELECTION"
    /\ UNCHANGED otherVars
    /\ UNCHANGED <<effectPending, lastGeneration, sessionVars, genInFlight, isAnalyzingWork,
                   analyzingHealth, mealEdit, crashed>>

\* handleCorporateLogin up to its await (ENTERPRISE_LOGIN "Analyze Work Culture")
CorporateLoginStart ==
    /\ Idle
    /\ screen = "ENTERPRISE_LOGIN"
    /\ ~isAnalyzingWork
    /\ isAnalyzingWork' = TRUE
    /\ UNCHANGED otherVars
    /\ UNCHANGED <<screen, effectPending, lastGeneration, sessionVars, genInFlight, verifyingLocation,
                   analyzingHealth, mealEdit, crashed>>

\* handleCorporateLogin after generateCorporateInsights settles
CorporateLoginDone ==
    /\ Idle
    /\ isAnalyzingWork
    /\ isAnalyzingWork' = FALSE
    /\ screen' = "GOALS"
    /\ UNCHANGED otherVars
    /\ UNCHANGED <<effectPending, lastGeneration, sessionVars, genInFlight, verifyingLocation,
                   analyzingHealth, mealEdit, crashed>>

\* HEALTH_MODE_SELECT, "General Wellness" card
SelectGeneral ==
    /\ Idle
    /\ screen = "HEALTH_MODE_SELECT"
    /\ healthMode' = "GENERAL"
    /\ screen' = "PREFERENCES"
    /\ UNCHANGED otherVars
    /\ UNCHANGED <<effectPending, lastGeneration, isAuthenticated, isPremium, generationsLeft, plan,
                   completedMealIndices, junkCalories, molecularSynergyScore,
                   loggedCalories, asyncVars, crashed>>

\* the state the click handler of a locked card leaves: <<screen, healthMode>>
LockedCardNoGate(premium, mode, current) == <<"MEDICINE", mode>>

LockedCard(premium, mode, current) ==
    IF ~premium THEN <<"UPGRADE", current>> ELSE <<"MEDICINE", mode>>

\* HEALTH_MODE_SELECT, "Disease Management" and "Med-to-Food Sync" cards
SelectLocked(mode) ==
    /\ Idle
    /\ screen = "HEALTH_MODE_SELECT"
    /\ screen' = LockedCard(isPremium, mode, healthMode)[1]
    /\ healthMode' = LockedCard(isPremium, mode, healthMode)[2]
    /\ UNCHANGED otherVars
    /\ UNCHANGED <<effectPending, lastGeneration, isAuthenticated, isPremium, generationsLeft, plan,
                   completedMealIndices, junkCalories, molecularSynergyScore,
                   loggedCalories, asyncVars, crashed>>

\* handleHealthAnalysis up to its await (MEDICINE "Analyze & Verify" or file upload)
HealthAnalysisStart ==
    /\ Idle
    /\ screen = "MEDICINE"
    /\ ~analyzingHealth
    /\ analyzingHealth' = TRUE
    /\ UNCHANGED otherVars
    /\ UNCHANGED <<screen, effectPending, lastGeneration, sessionVars, genInFlight, verifyingLocation,
                   isAnalyzingWork, mealEdit, crashed>>

\* handleHealthAnalysis after analyzeHealthCondition settles
HealthAnalysisDone ==
    /\ Idle
    /\ analyzingHealth
    /\ analyzingHealth' = FALSE
    /\ screen' = "MEDICINE_VERIFY"
    /\ UNCHANGED otherVars
    /\ UNCHANGED <<effectPending, lastGeneration, sessionVars, genInFlight, verifyingLocation,
                   isAnalyzingWork, mealEdit, crashed>>

\* MEDICINE "I have no health issues (Skip)": rendered unless analysing or isForceMode
MedicineSkip ==
    /\ ~analyzingHealth
    /\ healthMode \notin LockedModes
    /\ Navigate("MEDICINE", "PREFERENCES")

\* PREFERENCES "Generate Daily Plan": setScreen(GENERATING); its effect runs next
ClickGenerate ==
    /\ Idle
    /\ screen = "PREFERENCES"
    /\ PendingGenerations < MaxInFlight
    /\ screen' = "GENERATING"
    /\ effectPending' = TRUE
    /\ UNCHANGED otherVars
    /\ UNCHANGED <<sessionVars, asyncVars, crashed, lastGeneration>>

\* the generation-limit check of the GENERATING effect
LimitReachedOffByOne(premium, left) == ~premium /\ left < 0

LimitReached(premium, left) == ~premium /\ left <= 0

\* the [screen] effect, screen === GENERATING: limit check, else generateDailyPlan(userState)
GeneratingEffect ==
    /\ ~crashed
    /\ effectPending
    /\ effectPending' = FALSE
    /\ IF LimitReached(isPremium, generationsLeft)
       THEN /\ screen' = "UPGRADE"
            /\ UNCHANGED genInFlight
       ELSE /\ LET c == [isPremium |-> isPremium, generationsLeft |-> generationsLeft]
               IN  genInFlight' = [genInFlight EXCEPT ![c] = @ + 1]
            /\ UNCHANGED screen
    /\ UNCHANGED otherVars
    /\ UNCHANGED <<sessionVars, verifyingLocation, isAnalyzingWork, analyzingHealth,
                   mealEdit, crashed, lastGeneration>>

\* the screen the .catch callback of the GENERATING effect sets
CatchScreenStays(current) == current

CatchScreen(current) == "PREFERENCES"

\* generationsLeft after the .then callback, which reads isPremium and
\* generationsLeft from the closure c of the effect run that issued the request
LeftAfterAlwaysDecrement(c, current) == IF c.generationsLeft > 0 THEN c.generationsLeft - 1 ELSE 0

LeftAfter(c, current) == IF ~c.isPremium THEN c.generationsLeft - 1 ELSE current

\* .then callback of generateDailyPlan(userState), for a request issued with closure c
\* (a callback that drops the response once the screen is no longer GENERATING)
GenerateThenIfGenerating(c, p) ==
    /\ Idle
    /\ genInFlight[c] > 0
    /\ genInFlight' = [genInFlight EXCEPT ![c] = @ - 1]
    /\ plan' = IF screen = "GENERATING" THEN p ELSE plan
    /\ generationsLeft' =
          IF screen = "GENERATING" /\ ~c.isPremium THEN c.generationsLeft - 1 ELSE generationsLeft
    /\ molecularSynergyScore' =
          IF screen = "GENERATING" /\ Len(p.synergy) > 0
          THEN SynergyAverage(p.synergy) ELSE molecularSynergyScore
    /\ screen' = IF screen = "GENERATING" THEN "TODAY" ELSE screen
    /\ crashed' = RenderThrows(screen', plan')
    /\ lastGeneration' = "resolved"
    /\ UNCHANGED otherVars
    /\ UNCHANGED <<effectPending, isAuthenticated, isPremium, healthMode,
                   completedMealIndices, junkCalories, loggedCalories,
                   verifyingLocation, isAnalyzingWork, analyzingHealth, mealEdit>>
GenerateThen(c, p) ==
    /\ Idle
    /\ genInFlight[c] > 0
    /\ genInFlight' = [genInFlight EXCEPT ![c] = @ - 1]
    /\ plan' = p
    /\ generationsLeft' = LeftAfter(c, generationsLeft)
    /\ molecularSynergyScore' =
          IF Len(p.synergy) > 0 THEN SynergyAverage(p.synergy) ELSE molecularSynergyScore
    /\ screen' = "TODAY"
    /\ crashed' = RenderThrows("TODAY", p)
    /\ lastGeneration' = "resolved"
    /\ UNCHANGED otherVars
    /\ UNCHANGED <<effectPending, isAuthenticated, isPremium, healthMode,
                   completedMealIndices, junkCalories, loggedCalories,
                   verifyingLocation, isAnalyzingWork, analyzingHealth, mealEdit>>

\* .catch callback: generateDailyPlan(userState) rejected
\* (a callback that shows GENERATING again, so that its effect issues the request anew)
GenerateCatchRetrying(c) ==
    /\ Idle
    /\ genInFlight[c] > 0
    /\ genInFlight' = [genInFlight EXCEPT ![c] = @ - 1]
    /\ screen' = "GENERATING"
    /\ effectPending' = TRUE
    /\ lastGeneration' = "rejected"
    /\ UNCHANGED otherVars
    /\ UNCHANGED <<sessionVars, verifyingLocation, isAnalyzingWork,
                   analyzingHealth, mealEdit, crashed>>
GenerateCatch(c) ==
    /\ Idle
    /\ genInFlight[c] > 0
    /\ genInFlight' = [genInFlight EXCEPT ![c] = @ - 1]
    /\ screen' = CatchScreen(screen)
    /\ lastGeneration' = "rejected"
    /\ UNCHANGED otherVars
    /\ UNCHANGED <<effectPending, sessionVars, verifyingLocation, isAnalyzingWork,
                   analyzingHealth, mealEdit, crashed>>

\* UpgradeScreen onBack
UpgradeBack == Navigate("UPGRADE", "TODAY")

\* handleUpgrade (UpgradeScreen onUpgrade)
handleUpgrade ==
    /\ Idle
    /\ screen = "UPGRADE"
    /\ isPremium' = TRUE
    /\ screen' = "TODAY"
    /\ crashed' = RenderThrows("TODAY", plan)
    /\ UNCHANGED otherVars
    /\ UNCHANGED <<effectPending, lastGeneration, isAuthenticated, generationsLeft, healthMode, plan,
                   completedMealIndices, junkCalories, molecularSynergyScore,
                   loggedCalories, asyncVars>>

HomeScreens == {"TODAY", "PROGRESS"}

Tabs == {"Today", "Progress"}

TabScreen(t) == IF t = "Today" THEN "TODAY" ELSE "PROGRESS"

\* the tab BottomNav highlights
ShownTab == IF activeTab = "Today" /\ screen = "TODAY" THEN "Today" ELSE "Progress"

\* BottomNav onTabChange
\* (a tab switch that remounts the session: the completed meals are forgotten)
TabChangeForgetting(t) ==
    /\ Idle
    /\ screen \in HomeScreens
    /\ activeTab' = t
    /\ screen' = TabScreen(t)
    /\ crashed' = RenderThrows(TabScreen(t), plan)
    /\ completedMealIndices' = <<>>
    /\ UNCHANGED nonAppVars
    /\ UNCHANGED <<effectPending, lastGeneration, isAuthenticated, isPremium, generationsLeft,
                   healthMode, plan, junkCalories, molecularSynergyScore, loggedCalories,
                   asyncVars>>
TabChange(t) ==
    /\ Idle
    /\ screen \in HomeScreens
    /\ activeTab' = t
    /\ screen' = TabScreen(t)
    /\ crashed' = RenderThrows(TabScreen(t), plan)
    /\ UNCHANGED nonAppVars
    /\ UNCHANGED <<effectPending, lastGeneration, sessionVars, asyncVars>>

\* the continuation of await signOut() in handleLogout
LoggedOut ==
    /\ isAuthenticated' = FALSE
    /\ isLocalGuest' = FALSE
    /\ uid' = NoUid
    /\ screen' = "LOGIN"
    /\ UNCHANGED <<activeTab, hydVars, cacheVars, jsonVars, authInstance, authLoading, authError,
                   authPending, userName>>

\* handleLogout with signOut() resolved (TODAY "Logout", rendered once a plan exists)
handleLogout ==
    /\ Idle
    /\ screen = "TODAY"
    /\ plan # NoPlan
    /\ LoggedOut
    /\ UNCHANGED signOut
    /\ UNCHANGED <<effectPending, lastGeneration, isPremium, generationsLeft, healthMode, plan,
                   completedMealIndices, junkCalories, molecularSynergyScore,
                   loggedCalories, asyncVars, crashed>>

\* junkCalories after handleLogFood(fact), fact.calories = text
JunkAfterOverwrite(junk, text) == OrZero(parseInt(text))

JunkAfter(junk, text) == junk + OrZero(parseInt(text))

\* handleLogFood(fact): FoodLoggerModal "Add to Daily Total", opened from a home screen
handleLogFood(text) ==
    /\ Idle
    /\ screen \in HomeScreens
    /\ JunkAfter(junkCalories, text) <= MaxJunk
    /\ junkCalories' = JunkAfter(junkCalories, text)
    /\ loggedCalories' = loggedCalories + OrZero(parseInt(text))
    /\ UNCHANGED otherVars
    /\ UNCHANGED <<screen, effectPending, lastGeneration, isAuthenticated, isPremium, generationsLeft,
                   healthMode, plan, completedMealIndices, molecularSynergyScore,
                   asyncVars, crashed>>

\* handleToggleMeal(index): the check buttons of the meal lists on TODAY and PROGRESS
handleToggleMeal(index) ==
    /\ Idle
    /\ screen \in HomeScreens
    /\ MealAt(plan, index)
    /\ completedMealIndices' = ToggleMeal(completedMealIndices, index)
    /\ UNCHANGED otherVars
    /\ UNCHANGED <<screen, effectPending, lastGeneration, isAuthenticated, isPremium, generationsLeft,
                   healthMode, plan, junkCalories, molecularSynergyScore, loggedCalories,
                   asyncVars, crashed>>

\* EditMealModal.handleRegenerate up to its await, for the meal at position k of TODAY;
\* onSave is the handleMealUpdate of this render, so it keeps this render's plan
RegenerateStart(k) ==
    /\ Idle
    /\ screen = "TODAY"
    /\ ~mealEdit.pending
    /\ MealAt(plan, k - 1)
    /\ mealEdit' = [pending |-> TRUE, plan |-> plan, currentMeal |-> plan.meals[k]]
    /\ UNCHANGED otherVars
    /\ UNCHANGED <<screen, effectPending, lastGeneration, sessionVars, genInFlight, verifyingLocation,
                   isAnalyzingWork, analyzingHealth, crashed>>

\* what regenerateMealOption resolves to: a parsed meal, or currentMeal on failure
RegenerateResults ==
    MealResponses \cup (IF mealEdit.pending THEN {mealEdit.currentMeal} ELSE {})

\* handleRegenerate after regenerateMealOption settles: onSave(newMeal) = handleMealUpdate
RegenerateDone(newMeal) ==
    /\ Idle
    /\ mealEdit.pending
    /\ plan' = [mealEdit.plan EXCEPT !.meals = UpdatedMeals(mealEdit.plan.meals, newMeal)]
    /\ mealEdit' = NoEdit
    /\ crashed' = RenderThrows(screen, plan')
    /\ UNCHANGED otherVars
    /\ UNCHANGED <<screen, effectPending, lastGeneration, isAuthenticated, isPremium, generationsLeft,
                   healthMode, completedMealIndices, junkCalories, molecularSynergyScore,
                   loggedCalories, genInFlight, verifyingLocation, isAnalyzingWork,
                   analyzingHealth>>

(***************************************************************************)
(* Spec: the screen flow from LOGIN on, with every asynchronous response   *)
(* interleaved with the user's navigation.                                 *)
(***************************************************************************)
NextFlow ==
    \/ Authenticate
    \/ Onboarding
    \/ VerifyLocationStart
    \/ VerifyLocationDone
    \/ CorporateLoginStart
    \/ CorporateLoginDone
    \/ SelectGeneral
    \/ \E mode \in LockedModes : SelectLocked(mode)
    \/ HealthAnalysisStart
    \/ HealthAnalysisDone
    \/ MedicineSkip
    \/ ClickGenerate
    \/ GeneratingEffect
    \/ \E c \in Closures, p \in PlanResponses : GenerateThen(c, p)
    \/ \E c \in Closures : GenerateCatch(c)
    \/ UpgradeBack
    \/ handleUpgrade
    \/ \E t \in Tabs : TabChange(t)
    \/ handleLogout

Spec == InitApp /\ [][NextFlow]_vars

(***************************************************************************)
(* SpecHome: the home screens.  It starts where the flow has issued        *)
(* MaxInFlight generation requests for a free session (two requests are    *)
(* pending together when a late handleHealthAnalysis response takes the    *)
(* user back through PREFERENCES), and follows the responses and every     *)
(* operation of TODAY and PROGRESS on the plan and the progress counters.  *)
(***************************************************************************)
FreeClosure == [isPremium |-> FALSE, generationsLeft |-> InitialGenerations]

InitHome ==
    /\ screen = "GENERATING"
    /\ effectPending = FALSE
    /\ isAuthenticated = TRUE
    /\ isPremium = FALSE
    /\ generationsLeft = InitialGenerations
    /\ healthMode = "GENERAL"
    /\ plan = NoPlan
    /\ completedMealIndices = <<>>
    /\ junkCalories = 0
    /\ molecularSynergyScore = 0
    /\ genInFlight = [c \in Closures |-> IF c = FreeClosure THEN MaxInFlight ELSE 0]
    /\ verifyingLocation = FALSE
    /\ isAnalyzingWork = FALSE
    /\ analyzingHealth = FALSE
    /\ mealEdit = NoEdit
    /\ crashed = FALSE
    /\ activeTab = "Today"
    /\ loggedCalories = 0
    /\ lastGeneration = "none"
    /\ HydrationIdle
    /\ CacheIdle
    /\ JsonIdle
    /\ AuthIdle

NextHome ==
    \/ \E c \in Closures, p \in PlanResponses : GenerateThen(c, p)
    \/ \E c \in Closures : GenerateCatch(c)
    \/ \E t \in Tabs : TabChange(t)
    \/ \E text \in FactCalories : handleLogFood(text)
    \/ \E index \in 0..1 : handleToggleMeal(index)
    \/ \E k \in 1..2 : RegenerateStart(k)
    \/ \E newMeal \in RegenerateResults : RegenerateDone(newMeal)

SpecHome == InitHome /\ [][NextHome]_vars

(***************************************************************************)
(* Claims on the screen flow (Spec).                                       *)
(***************************************************************************)

\* C1: whenever the GENERATING effect runs for a session with isPremium = false and
\* generationsLeft <= 0, it sets the screen to UPGRADE and does not call
\* generateDailyPlan: no request is added, plan and generationsLeft are unchanged.
C1_LimitRoutesToUpgrade ==
    [][ (effectPending /\ ~effectPending' /\ ~isPremium /\ generationsLeft <= 0)
          => /\ screen' = "UPGRADE"
             /\ genInFlight' = genInFlight
             /\ plan' = plan
             /\ generationsLeft' = generationsLeft ]_vars

\* GENERATING has been entered by a free session that has used all its credits
C1_Witness ==
    screen = "GENERATING" /\ effectPending /\ ~isPremium /\ generationsLeft = 0

\* C2: on HEALTH_MODE_SELECT, choosing a locked mode while isPremium is false sets the
\* screen to UPGRADE and keeps healthMode; while isPremium is true it sets healthMode
\* to the chosen mode and the screen to MEDICINE.
C2_LockedModeRouting ==
    [][ \A mode \in LockedModes :
          SelectLocked(mode) =>
             IF isPremium
             THEN healthMode' = mode /\ screen' = "MEDICINE"
             ELSE healthMode' = healthMode /\ screen' = "UPGRADE" ]_vars

\* a premium session has chosen Med-to-Food Sync and is on the medicine-capture screen
C2_Witness ==
    screen = "MEDICINE" /\ healthMode = "MOLECULE_MATCH" /\ isPremium

\* C3: when generateDailyPlan rejects, the .catch callback sets the screen to PREFERENCES
\* and leaves plan and generationsLeft as they were.
C3_FailureRoutesToPreferences ==
    [][ \A c \in Closures :
          GenerateCatch(c) =>
             /\ screen' = "PREFERENCES"
             /\ plan' = plan
             /\ generationsLeft' = generationsLeft ]_vars

\* a generation has just been rejected and the user is back on PREFERENCES,
\* a plan from an earlier generation still stored
C3_Witness ==
    lastGeneration = "rejected" /\ screen = "PREFERENCES" /\ plan # NoPlan

(***************************************************************************)
(* Claims on the home screens (SpecHome).                                  *)
(***************************************************************************)
Elems(list) == {list[k] : k \in 1..Len(list)}

MealIndices == 0..1

Twice(list, i) == ToggleMeal(ToggleMeal(list, i), i)

\* C6 as stated: toggling any meal index twice in succession returns the
\* completedMealIndices list to its original value.
C6_ToggleTwiceSameList ==
    \A i \in MealIndices :
        MealAt(plan, i) => Twice(completedMealIndices, i) = completedMealIndices

\* C6 amended: toggling a meal index twice in succession returns completedMealIndices to
\* a list with the same elements and the same length; the list itself is unchanged when
\* the index was absent or was the last element, otherwise the index has moved to the end.
C6_ToggleTwiceSameElements ==
    \A i \in MealIndices :
        MealAt(plan, i) =>
            LET list == completedMealIndices
                twice == Twice(list, i)
            IN  /\ Elems(twice) = Elems(list)
                /\ Len(twice) = Len(list)
                /\ (~Includes(list, i) \/ list[Len(list)] = i) => twice = list
                /\ (Includes(list, i) /\ list[Len(list)] # i) =>
                       twice = Append(SelectSeq(list, LAMBDA j : j # i), i)

\* two meals are marked complete, so one of them is in the list and not last
C6_Witness ==
    /\ Len(completedMealIndices) = 2
    /\ screen \in HomeScreens
    /\ ~crashed

\* calories of one plan meal as the progress view counts them
MealCalories(m) == OrZero(parseInt(m.calories))

RECURSIVE SumOver(_, _)
SumOver(S, p) ==
    IF S = {} THEN 0
    ELSE LET i == CHOOSE x \in S : TRUE
         IN  MealCalories(p.meals[i + 1]) + SumOver(S \ {i}, p)

\* the plan meals currently marked complete, by index
CompleteMeals == {i \in Elems(completedMealIndices) : MealAt(plan, i)}

\* C7: in every state of the running application the consumed-calories figure equals
\* the calories of all logged foods plus the calories of exactly the plan meals that are
\* marked complete.
C7_ConsumedCalories ==
    ~crashed =>
        /\ ~ConsumedThrows(completedMealIndices, plan)
        /\ getConsumedCalories = loggedCalories + SumOver(CompleteMeals, plan)

\* PROGRESS shows a figure made of logged food and of a completed meal with calories
C7_Witness ==
    /\ screen = "PROGRESS"
    /\ ~crashed
    /\ loggedCalories > 0
    /\ SumOver(CompleteMeals, plan) > 0
    /\ Len(completedMealIndices) = 2

\* C17: on a rendered home screen both tabs of BottomNav can be chosen, as often
\* as the user likes; choosing tab t makes the screen of t the visible screen and
\* t the highlighted tab, and changes nothing else: the plan, the progress
\* counters, the credits, the identity and the requests in flight are as before.
C17_TabSwitchChangesOnlyTheTab ==
    /\ [](screen \in HomeScreens /\ ~crashed => \A t \in Tabs : ENABLED TabChange(t))
    /\ [][ \A t \in Tabs :
             TabChange(t)
             => /\ screen' = IF t = "Today" THEN "TODAY" ELSE "PROGRESS"
                /\ ShownTab' = t
                /\ crashed' = crashed
                /\ effectPending' = effectPending
                /\ lastGeneration' = lastGeneration
                /\ sessionVars' = sessionVars
                /\ asyncVars' = asyncVars
                /\ nonAppVars' = nonAppVars ]_vars

\* PROGRESS reached by its tab with a plan, a completed meal and logged food,
\* while a meal regeneration is pending
C17_Witness ==
    /\ screen = "PROGRESS"
    /\ activeTab = "Progress"
    /\ ~crashed
    /\ plan # NoPlan
    /\ completedMealIndices # <<>>
    /\ junkCalories > 0
    /\ mealEdit.pending

\* C18: a pending generateDailyPlan request leaves the set of requests in flight
\* only by its .then or its .catch callback, and while the tree is mounted both
\* callbacks can run on whatever screen is shown: the .then callback stores the
\* plan of the response and sets the screen to TODAY, the .catch callback sets
\* the screen to PREFERENCES and leaves the plan as it is.
C18_LateResponseStillApplied ==
    /\ [](Idle => \A c \in {d \in Closures : genInFlight[d] > 0} :
                     /\ ENABLED GenerateCatch(c)
                     /\ \A p \in PlanResponses : ENABLED GenerateThen(c, p))
    /\ [][ \A c \in {d \in Closures : genInFlight[d] > 0} :
             /\ genInFlight'[c] < genInFlight[c]
                => \/ GenerateCatch(c)
                   \/ \E p \in PlanResponses : GenerateThen(c, p)
             /\ GenerateCatch(c) => (screen' = "PREFERENCES" /\ plan' = plan)
             /\ \A p \in PlanResponses :
                   GenerateThen(c, p) => (screen' = "TODAY" /\ plan' = p) ]_vars

\* a response was applied while PROGRESS was shown: TODAY is on screen although
\* the tab last chosen is Progress, and both requests have been answered
C18_Witness ==
    /\ screen = "TODAY"
    /\ activeTab = "Progress"
    /\ ~crashed
    /\ lastGeneration = "resolved"
    /\ \A c \in Closures : genInFlight[c] = 0

\* C19: when handleMealUpdate(newMeal) runs for the meal edited in the stored
\* plan, the stored plan afterwards is that plan with newMeal at the position of
\* the edited meal: every other meal, the number and order of the meals and the
\* other fields of the plan are as before.
C19_ReplacesExactlyTheEditedMeal ==
    [][ \A newMeal \in RegenerateResults :
          (RegenerateDone(newMeal) /\ plan = mealEdit.plan)
          => \E k \in 1..Len(plan.meals) :
                /\ plan.meals[k] = mealEdit.currentMeal
                /\ plan' = [plan EXCEPT !.meals[k] = newMeal] ]_vars

(***************************************************************************)
(* SpecHydration: the hydration cooldown of the PROGRESS screen.  The      *)
(* clock is kept relative: diff is the quantity the interval callback      *)
(* computes (target - now), untilTick the time to its next run.  Time      *)
(* passes in steps of half a timer period, and a due callback runs before  *)
(* time passes further.  The session is on PROGRESS with a plan stored.    *)
(***************************************************************************)
Step == TICK_MS \div 2

Max(a, b) == IF a >= b THEN a ELSE b

InitHydration ==
    /\ screen = "PROGRESS"
    /\ effectPending = FALSE
    /\ isAuthenticated = TRUE
    /\ isPremium = FALSE
    /\ generationsLeft = InitialGenerations - 1
    /\ healthMode = "GENERAL"
    /\ plan = PlanA
    /\ completedMealIndices = << 0 >>
    /\ junkCalories = 1
    /\ molecularSynergyScore = 0
    /\ genInFlight = [c \in Closures |-> 0]
    /\ verifyingLocation = FALSE
    /\ isAnalyzingWork = FALSE
    /\ analyzingHealth = FALSE
    /\ mealEdit = NoEdit
    /\ crashed = FALSE
    /\ activeTab = "Progress"
    /\ loggedCalories = 1
    /\ lastGeneration = "resolved"
    /\ HydrationIdle
    /\ CacheIdle
    /\ JsonIdle
    /\ AuthIdle

\* time passes, up to the next run of the interval callback
Advance ==
    /\ untilTick >= Step
    /\ untilTick' = untilTick - Step
    /\ diff' = Max(diff - Step, 0)
    /\ UNCHANGED <<appVars, cacheVars, jsonVars, authVars, waterIntake, nextHydrationSet,
                   isHydrationLocked, today, lastResetDate>>

\* the clock passes midnight
MidnightPasses ==
    /\ today < MaxDay
    /\ today' = today + 1
    /\ UNCHANGED <<appVars, cacheVars, jsonVars, authVars, waterIntake, nextHydrationSet, diff, untilTick,
                   isHydrationLocked, lastResetDate>>

\* isHydrationLocked as the interval callback sets it
LockedAtTick(isSet, d) == isSet /\ d > 0

\* the setInterval callback of the hydration effect
TimerTick ==
    /\ ~crashed
    /\ untilTick = 0
    /\ isHydrationLocked' = LockedAtTick(nextHydrationSet, diff)
    /\ untilTick' = TICK_MS
    /\ UNCHANGED <<appVars, cacheVars, jsonVars, authVars, waterIntake, nextHydrationSet, diff, today,
                   lastResetDate>>

\* handleHydrate: PROGRESS "+ Drink Water", disabled={isHydrationLocked}.  The effect
\* depends on nextHydrationTime: when the stored string changes, the interval is
\* cleared and armed again.
handleHydrate ==
    /\ Idle
    /\ screen = "PROGRESS"
    /\ ~isHydrationLocked
    /\ waterIntake < MaxWater
    /\ waterIntake' = waterIntake + 1
    /\ nextHydrationSet' = TRUE
    /\ diff' = HOUR_MS
    /\ untilTick' = IF nextHydrationSet /\ diff = HOUR_MS THEN untilTick ELSE TICK_MS
    /\ UNCHANGED <<appVars, cacheVars, jsonVars, authVars, isHydrationLocked, today, lastResetDate>>

NextHydration ==
    \/ Advance
    \/ MidnightPasses
    \/ TimerTick
    \/ handleHydrate

SpecHydration == InitHydration /\ [][NextHydration]_vars

\* C4: after a water-intake event at time T, nextHydrationTime is T + 60 minutes and
\* the hydrate button is disabled at every instant before T + 60 minutes, so that no
\* second water-intake event is logged in the interval.
C4_DisabledDuringCooldown ==
    nextHydrationSet =>
        /\ diff <= HOUR_MS
        /\ diff > 0 => isHydrationLocked

\* C5: a read of the session state on a calendar day other than the day of
\* lastResetDate (here the read of the interval callback) zeroes the calorie counter,
\* waterIntake and completedMealIndices and sets lastResetDate to the current day.
C5_ResetOnFirstReadOfDay ==
    [][ (TimerTick /\ today # lastResetDate)
          => /\ junkCalories' = 0
             /\ waterIntake' = 0
             /\ completedMealIndices' = <<>>
             /\ lastResetDate' = today ]_vars

\* SpecCache: the adapters called in any order, responses arriving in any order
InitCache ==
    /\ AppLoaded
    /\ HydrationIdle
    /\ JsonIdle
    /\ AuthIdle
    /\ hasApiKey \in BOOLEAN
    /\ globalCache = {}
    /\ pending = EmptyBag
    /\ outbound = EmptyBag
    /\ lastCall = NoCall

Returned(call, key, hit, value) ==
    [adapter |-> call.adapter, city |-> call.city, arg |-> call.arg,
     key |-> key, hit |-> hit, value |-> value]

\* an adapter call up to its first await: the apiKey guard, the cache lookup
\* and, on a miss, the generateContent request
AdapterCall(call) ==
    LET key == CacheKey(call.adapter, call.city, call.arg) IN
    IF ~hasApiKey
    THEN /\ lastCall' = Returned(call, key, FALSE, ResultOf(call, "throw"))
         /\ UNCHANGED <<globalCache, pending, outbound>>
    ELSE IF CacheHas(key)
    THEN /\ lastCall' = Returned(call, key, TRUE, CacheGet(key))
         /\ UNCHANGED <<globalCache, pending, outbound>>
    ELSE /\ Requests < MaxRequests
         /\ pending' = pending (+) SetToBag({call})
         /\ outbound' = outbound (+) SetToBag({key})
         /\ UNCHANGED <<globalCache, lastCall>>

checkIngredientAvailability(city, ingredients) ==
    /\ AdapterCall([adapter |-> "checkIngredientAvailability", city |-> city,
                    arg |-> ingredients])
    /\ UNCHANGED <<hasApiKey, appVars, hydVars, jsonVars, authVars>>

findDeliveryPartners(city, type) ==
    /\ AdapterCall([adapter |-> "findDeliveryPartners", city |-> city, arg |-> type])
    /\ UNCHANGED <<hasApiKey, appVars, hydVars, jsonVars, authVars>>

\* the cache after the continuation of the await has run
CacheAfter(key, value) == CacheSet(key, value)

\* generateContent resolves: the parsed text (or the {} of a failed parse) is
\* stored under the key computed before the await and returned
Resolve(call, outcome) ==
    LET key == CacheKey(call.adapter, call.city, call.arg)
        data == ResultOf(call, outcome)
    IN  /\ CopiesIn(call, pending) > 0
        /\ globalCache' = CacheAfter(key, data)
        /\ lastCall' = Returned(call, key, FALSE, data)
        /\ pending' = pending (-) SetToBag({call})
        /\ UNCHANGED <<outbound, hasApiKey, appVars, hydVars, jsonVars, authVars>>

\* generateContent rejects: the catch returns the fallback and stores nothing
Reject(call) ==
    LET key == CacheKey(call.adapter, call.city, call.arg)
    IN  /\ CopiesIn(call, pending) > 0
        /\ lastCall' = Returned(call, key, FALSE, ResultOf(call, "throw"))
        /\ pending' = pending (-) SetToBag({call})
        /\ UNCHANGED <<globalCache, outbound, hasApiKey, appVars, hydVars, jsonVars, authVars>>

NextCache ==
    \/ \E city \in Cities, ingredients \in IngredientLists :
          checkIngredientAvailability(city, ingredients)
    \/ \E city \in Cities, type \in PartnerTypes : findDeliveryPartners(city, type)
    \/ \E call \in AdapterCalls, outcome \in {"json", "malformed"} : Resolve(call, outcome)
    \/ \E call \in AdapterCalls : Reject(call)

SpecCache == InitCache /\ [][NextCache]_vars

Count(s, x) == Cardinality({k \in 1..Len(s) : s[k] = x})

IsPermutation(a, b) ==
    /\ Len(a) = Len(b)
    /\ \A x \in IngredientNames : Count(a, x) = Count(b, x)

\* C8: for the same city, ingredient lists that are permutations of each other
\* have the identical cache key, and a call of checkIngredientAvailability finds
\* the entry that a call with a permutation of its list has stored: it returns
\* that entry and issues no request.
C8_PermutationHitsCache ==
    [][ \A e \in globalCache :
          e.value.for.adapter = "checkIngredientAvailability" =>
             \A l \in {x \in IngredientLists : IsPermutation(e.value.for.arg, x)} :
                checkIngredientAvailability(e.value.for.city, l)
                => /\ IngredientKey(e.value.for.city, l) = e.key
                   /\ lastCall' = Returned([adapter |-> "checkIngredientAvailability",
                                            city |-> e.value.for.city, arg |-> l],
                                           e.key, TRUE, e.value)
                   /\ outbound' = outbound
                   /\ pending' = pending ]_vars

\* a call was answered from the entry stored for the same list in another order
C8_Witness ==
    /\ lastCall.adapter = "checkIngredientAvailability"
    /\ lastCall.hit
    /\ lastCall.value.kind = "data"
    /\ lastCall.value.for.city = lastCall.city
    /\ lastCall.value.for.arg # lastCall.arg
    /\ IsPermutation(lastCall.value.for.arg, lastCall.arg)

\* C9: for every cache key, the cached adapters issue at most one request.
C9_OneRequestPerKey ==
    \A key \in CacheKeys : CopiesIn(key, outbound) <= 1

\* C16: a key that has an entry in globalCache has one in every later state
\* (nothing evicts or expires it), and from then on no request is issued for
\* that key: a call of an adapter with that key returns the value the entry
\* holds, as a hit, and leaves the cache and the requests as they are.
C16_EntryPersistsAndHits ==
    /\ [][ \A e \in globalCache :
             /\ \E f \in globalCache' : f.key = e.key
             /\ CopiesIn(e.key, outbound') = CopiesIn(e.key, outbound) ]_vars
    /\ [][ \A e \in globalCache :
             \* a call that returns without awaiting a response
             (lastCall' # lastCall /\ pending' = pending /\ lastCall'.key = e.key)
             => /\ lastCall'.hit
                /\ lastCall'.value = e.value
                /\ globalCache' = globalCache ]_vars

\* a call was answered from an entry that outlived the storing of another one
C16_Witness ==
    /\ lastCall.adapter # "none"
    /\ lastCall.hit
    /\ CopiesIn(lastCall.key, outbound) = 1
    /\ \E e \in globalCache : e.key # lastCall.key
    /\ pending = EmptyBag

(***************************************************************************)
(* SpecJSON: the response normalizer.  A text is a sequence of tokens:     *)
(*   "{" "}" "[" "]"   the structural characters                          *)
(*   "m"               one object member, "k":1                            *)
(*   "1"               a digit                                             *)
(*   "F"  "J"          the fences ``` and ```json                          *)
(*   "p"               a letter of prose                                   *)
(*   " "               a whitespace character                              *)
(***************************************************************************)
Tokens == {"{", "}", "[", "]", "m", "1", "F", "J", "p", " "}

Texts == SeqsUpTo(Tokens, MaxTextLen)

\* str.replace(/tok/g, '')
RECURSIVE Remove(_, _)
Remove(str, tok) ==
    IF str = <<>> THEN <<>>
    ELSE IF Head(str) = tok THEN Remove(Tail(str), tok)
    ELSE << Head(str) >> \o Remove(Tail(str), tok)

\* the whitespace characters of the texts
Whitespace == {" ", "\n"}

RECURSIVE TrimStart(_)
TrimStart(str) ==
    IF str # <<>> /\ Head(str) \in Whitespace THEN TrimStart(Tail(str)) ELSE str

RECURSIVE TrimEnd(_)
TrimEnd(str) ==
    IF str # <<>> /\ str[Len(str)] \in Whitespace
    THEN TrimEnd(SubSeq(str, 1, Len(str) - 1))
    ELSE str

\* String.prototype.trim
Trim(str) == TrimEnd(TrimStart(str))

Min(a, b) == IF a < b THEN a ELSE b

\* str.indexOf(tok) and str.lastIndexOf(tok), zero-based, -1 when absent
IndexOf(str, tok) ==
    IF \E k \in 1..Len(str) : str[k] = tok
    THEN (CHOOSE k \in 1..Len(str) :
             str[k] = tok /\ \A j \in 1..(k - 1) : str[j] # tok) - 1
    ELSE -1

LastIndexOf(str, tok) ==
    IF \E k \in 1..Len(str) : str[k] = tok
    THEN (CHOOSE k \in 1..Len(str) :
             str[k] = tok /\ \A j \in (k + 1)..Len(str) : str[j] # tok) - 1
    ELSE -1

\* str.substring(from) and str.substring(0, to), zero-based
SubstringFrom(str, from) == SubSeq(str, from + 1, Len(str))

SubstringTo(str, to) == SubSeq(str, 1, to)

\* the position after the whitespace that starts at position i
RECURSIVE SkipWs(_, _)
SkipWs(str, i) ==
    IF i <= Len(str) /\ str[i] = " " THEN SkipWs(str, i + 1) ELSE i

RECURSIVE SkipDigits(_, _)
SkipDigits(str, i) ==
    IF i <= Len(str) /\ str[i] = "1" THEN SkipDigits(str, i + 1) ELSE i

Is(str, i, tok) == i <= Len(str) /\ str[i] = tok

\* the position after the JSON value that starts at or after position i,
\* 0 when there is none
RECURSIVE ParseValue(_, _)
ParseValue(str, i) ==
    LET j == SkipWs(str, i) IN
    IF Is(str, j, "1") THEN SkipDigits(str, j)
    ELSE IF Is(str, j, "{")
    THEN LET k == SkipWs(str, j + 1) IN
         IF Is(str, k, "}") THEN k + 1
         ELSE IF Is(str, k, "m") /\ Is(str, SkipWs(str, k + 1), "}")
         THEN SkipWs(str, k + 1) + 1
         ELSE 0
    ELSE IF Is(str, j, "[")
    THEN LET k == SkipWs(str, j + 1) IN
         IF Is(str, k, "]") THEN k + 1
         ELSE LET n == ParseValue(str, k) IN
              IF n # 0 /\ Is(str, SkipWs(str, n), "]")
              THEN SkipWs(str, n) + 1
              ELSE 0
    ELSE 0

\* str is one JSON value with optional whitespace around it
ValidJSON(str) ==
    LET n == ParseValue(str, 1) IN n # 0 /\ SkipWs(str, n) = Len(str) + 1

\* JSON.parse: the value, written without insignificant whitespace, or a SyntaxError
JSONparse(str) ==
    IF ValidJSON(str)
    THEN [throws |-> FALSE, value |-> Remove(str, " ")]
    ELSE [throws |-> TRUE, value |-> <<>>]

EmptyObject == << "{", "}" >>

Cut(str) ==
    LET firstBrace == IndexOf(str, "{")
        firstBracket == IndexOf(str, "[")
        start == IF firstBrace = -1 THEN firstBracket
                 ELSE IF firstBracket = -1 THEN firstBrace
                 ELSE Min(firstBrace, firstBracket)
    IN  IF start > -1
        THEN LET rest == SubstringFrom(str, start)
                 lastBrace == LastIndexOf(rest, "}")
                 lastBracket == LastIndexOf(rest, "]")
                 end == Max(lastBrace, lastBracket)
             IN  IF end > -1 THEN SubstringTo(rest, end + 1) ELSE rest
        ELSE str

cleanAndParseJSON(str) ==
    LET cleanText == Trim(Remove(Remove(str, "J"), "F"))
        result == JSONparse(Cut(cleanText))
    IN  IF result.throws THEN EmptyObject ELSE result.value

InitJSON ==
    /\ AppLoaded
    /\ HydrationIdle
    /\ CacheIdle
    /\ AuthIdle
    /\ responseText \in Texts
    /\ parsed = NotParsed

Parse ==
    /\ ~parsed.done
    /\ parsed' = [done |-> TRUE, value |-> cleanAndParseJSON(responseText)]
    /\ UNCHANGED <<responseText, appVars, hydVars, cacheVars, authVars>>

NextJSON == Parse

SpecJSON == InitJSON /\ [][NextJSON]_vars

\* str is a JSON object
ValidObject(str) == ValidJSON(str) /\ Is(str, 1, "{")

\* a JSON object between an opening ``` or ```json and a closing ```
IsFencedObject(str) ==
    /\ Len(str) >= 2
    /\ str[1] \in {"F", "J"}
    /\ str[Len(str)] = "F"
    /\ ValidObject(Trim(SubSeq(str, 2, Len(str) - 1)))

FencedObject(str) == Remove(SubSeq(str, 2, Len(str) - 1), " ")

\* the lengths of the sentences of letters and spaces that precede a JSON object
ProsePrefixes(str) ==
    {k \in 1..(Len(str) - 1) :
        /\ \A j \in 1..k : str[j] \in {"p", " "}
        /\ \E j \in 1..k : str[j] = "p"
        /\ ValidObject(SubSeq(str, k + 1, Len(str)))}

NoBraceNoBracket(str) == \A k \in 1..Len(str) : str[k] \notin {"{", "["}

C10_FencedRecovered ==
    (parsed.done /\ IsFencedObject(responseText)) => parsed.value = FencedObject(responseText)

C10_ProseRecovered ==
    parsed.done =>
       \A k \in ProsePrefixes(responseText) :
          parsed.value = Remove(SubSeq(responseText, k + 1, Len(responseText)), " ")

C10_NoBraceGivesEmpty ==
    (parsed.done /\ NoBraceNoBracket(responseText)) => parsed.value = EmptyObject

\* C10: cleanAndParseJSON returns for every text; for a JSON object in code
\* fences, or after a prose sentence, it returns that object; for a text with
\* no '{' and no '[' it returns the empty object.
C10_RecoversOrEmpty ==
    /\ C10_FencedRecovered
    /\ C10_ProseRecovered
    /\ C10_NoBraceGivesEmpty

(***************************************************************************)
(* SpecPipe: the pipe-delimited adapters findPharmacies and                *)
(* findRestaurantOptions from the arrival of the response on.  A text is a *)
(* sequence of characters: "|", the line feed "\n", the letter "a" and the *)
(* space " ".                                                              *)
(***************************************************************************)
LineChars == {"|", "\n", "a", " "}

LineTexts == SeqsUpTo(LineChars, MaxLinesLen)

\* str.split(sep)
RECURSIVE Split(_, _)
Split(str, sep) ==
    IF ~Includes(str, sep) THEN << str >>
    ELSE LET i == IndexOf(str, sep) + 1 IN
         << SubSeq(str, 1, i - 1) >> \o Split(SubSeq(str, i + 1, Len(str)), sep)

Undefined == [defined |-> FALSE, value |-> <<>>]

Defined(str) == [defined |-> TRUE, value |-> str]

\* parts[3] || undefined
OrUndefined(parts, k) ==
    IF k <= Len(parts) /\ parts[k] # <<>> THEN Defined(parts[k]) ELSE Undefined

LocalService(name, rating, address, googleMapsUri, description, url) ==
    [name |-> name, rating |-> rating, address |-> address,
     googleMapsUri |-> googleMapsUri, description |-> description, url |-> url]

\* line.split('|').map(s => s.trim())
Parts(line) == LET raw == Split(line, "|") IN [k \in 1..Len(raw) |-> Trim(raw[k])]

\* parts.length >= 3
EnoughPartsWithLink(parts) == Len(parts) >= 4

EnoughParts(parts) == Len(parts) >= 3

\* the loop over the lines of the text
RECURSIVE ServicesOf(_, _)
ServicesOf(lines, description) ==
    IF lines = <<>> THEN <<>>
    ELSE LET line == Head(lines)
             parts == Parts(line)
         IN  (IF Includes(line, "|") /\ EnoughParts(parts)
              THEN << LocalService(parts[1], Defined(parts[2]), Defined(parts[3]),
                                   OrUndefined(parts, 4), description, Undefined) >>
              ELSE <<>>)
             \o ServicesOf(Tail(lines), description)

\* the services pushed for a response text
ParseServices(str, description) == ServicesOf(Split(str, "\n"), description)

PipeCity == << "P" >>

PipeDish == << "B" >>

PharmaKey(city) == << "pharma_" >> \o toLowerCase(city)

RestKey(city, dishName) ==
    << "rest_" >> \o toLowerCase(city) \o << "_" >> \o toLowerCase(dishName)

\* response.candidates?.[0]?.groundingMetadata?.groundingChunks: absent, or a
\* list whose chunks have web.uri and web.title (usable) or lack them
GroundingChunks ==
    {[present |-> FALSE, usable |-> 0], [present |-> TRUE, usable |-> 0],
     [present |-> TRUE, usable |-> 1]}

FromChunks(chunks, city) ==
    [k \in 1..chunks.usable |->
        LocalService(<< "title" >>, Defined(<< "4.5" >>), Defined(city),
                     Defined(<< "uri" >>), << "Recommended via Search" >>, Undefined)]

\* the value of the catch of findRestaurantOptions
RestaurantFallback(city, dishName) ==
    << LocalService(<< "Zomato Search" >>, Undefined, Undefined, Undefined,
                    << "Search on Zomato" >>,
                    Defined(<< "https://www.zomato.com/" >> \o toLowerCase(city)
                            \o << "/restaurants?q=" >> \o dishName)),
       LocalService(<< "Swiggy Search" >>, Undefined, Undefined, Undefined,
                    << "Search on Swiggy" >>,
                    Defined(<< "https://www.swiggy.com/search?query=" >> \o dishName)) >>

\* an adapter returns value; responded: generateContent resolved, stored: the
\* value was put into globalCache
Return(adapter, responded, value, stored) ==
    [done |-> TRUE, adapter |-> adapter, responded |-> responded, value |-> value,
     stored |-> stored, threw |-> FALSE]

\* the catch block of an adapter returns its fallback
CatchRethrows(adapter, responded, fallback) ==
    [done |-> TRUE, adapter |-> adapter, responded |-> responded, value |-> fallback,
     stored |-> FALSE, threw |-> TRUE]

Catch(adapter, responded, fallback) == Return(adapter, responded, fallback, FALSE)

PipeAdapters == {"findPharmacies", "findRestaurantOptions", "verifyLocationEntry"}

PipeState == << "a" >>

LocKey(inputCity, inputState) ==
    << "loc_" >> \o toLowerCase(inputCity) \o << "_" >> \o toLowerCase(inputState)

Location(city, state, country) == [city |-> city, state |-> state, country |-> country]

\* the value of the catch block of an adapter
FallbackOf(adapter) ==
    CASE adapter = "findPharmacies" -> <<>>
      [] adapter = "findRestaurantOptions" -> RestaurantFallback(PipeCity, PipeDish)
      [] adapter = "verifyLocationEntry" -> Location(PipeCity, PipeState, << "India" >>)

InitPipe ==
    /\ AppLoaded
    /\ HydrationIdle
    /\ CacheIdle
    /\ AuthIdle
    /\ responseText \in LineTexts
    /\ parsed = NotParsed

\* findPharmacies after the await: parse, store, return
findPharmaciesThen ==
    LET services == ParseServices(responseText, << "Pharmacy" >>) IN
    /\ ~parsed.done
    /\ globalCache' = CacheSet(PharmaKey(PipeCity), services)
    /\ parsed' = Return("findPharmacies", TRUE, services, TRUE)
    /\ UNCHANGED <<responseText, hasApiKey, pending, outbound, lastCall, appVars, hydVars,
                   authVars>>

\* findRestaurantOptions after the await: parse, fall back on the grounding
\* chunks, then throw "No data" into the catch or store and return
findRestaurantOptionsThen(chunks) ==
    LET parsedServices == ParseServices(responseText, << "Best for " >> \o PipeDish)
        services == IF parsedServices = <<>> /\ chunks.present
                    THEN FromChunks(chunks, PipeCity)
                    ELSE parsedServices
    IN  /\ ~parsed.done
        /\ IF services = <<>>
           THEN /\ parsed' = Catch("findRestaurantOptions", TRUE,
                                   FallbackOf("findRestaurantOptions"))
                /\ UNCHANGED globalCache
           ELSE /\ globalCache' = CacheSet(RestKey(PipeCity, PipeDish), services)
                /\ parsed' = Return("findRestaurantOptions", TRUE, services, TRUE)
        /\ UNCHANGED <<responseText, hasApiKey, pending, outbound, lastCall, appVars,
                       hydVars, authVars>>

\* verifyLocationEntry after the await: three fields are stored and returned,
\* anything else gives the fallback
verifyLocationEntryThen ==
    LET parts == Split(responseText, "|") IN
    /\ ~parsed.done
    /\ IF Len(parts) >= 3
       THEN LET result == Location(Trim(parts[1]), Trim(parts[2]), Trim(parts[3])) IN
            /\ globalCache' = CacheSet(LocKey(PipeCity, PipeState), result)
            /\ parsed' = Return("verifyLocationEntry", TRUE, result, TRUE)
       ELSE /\ parsed' = Return("verifyLocationEntry", TRUE,
                                FallbackOf("verifyLocationEntry"), FALSE)
            /\ UNCHANGED globalCache
    /\ UNCHANGED <<responseText, hasApiKey, pending, outbound, lastCall, appVars, hydVars,
                   authVars>>

\* generateContent rejects: the catch block of the adapter runs
generateContentRejects(adapter) ==
    /\ ~parsed.done
    /\ parsed' = Catch(adapter, FALSE, FallbackOf(adapter))
    /\ UNCHANGED <<responseText, cacheVars, appVars, hydVars, authVars>>

NextPipe ==
    \/ findPharmaciesThen
    \/ \E chunks \in GroundingChunks : findRestaurantOptionsThen(chunks)
    \/ verifyLocationEntryThen
    \/ \E adapter \in PipeAdapters : generateContentRejects(adapter)

SpecPipe == InitPipe /\ [][NextPipe]_vars

\* the positions of sep in str, and the n-th piece of str between them
Positions(str, sep) == {k \in 1..Len(str) : str[k] = sep}

Boundary(str, sep, n) ==
    IF n = 0 THEN 0
    ELSE IF n > Cardinality(Positions(str, sep)) THEN Len(str) + 1
    ELSE CHOOSE q \in Positions(str, sep) :
            Cardinality({r \in Positions(str, sep) : r < q}) = n - 1

Piece(str, sep, n) ==
    SubSeq(str, Boundary(str, sep, n - 1) + 1, Boundary(str, sep, n) - 1)

LineCount == Cardinality(Positions(responseText, "\n")) + 1

LineAt(i) == Piece(responseText, "\n", i)

FieldCount(line) == Cardinality(Positions(line, "|")) + 1

\* the lines with at least the three fields name, rating, address
FullLines == {i \in 1..LineCount : FieldCount(LineAt(i)) >= 3}

\* the k-th of the full lines
FullLine(k) ==
    LineAt(CHOOSE i \in FullLines : Cardinality({j \in FullLines : j < i}) = k - 1)

RecordOfLine(record, line) ==
    /\ record.name = Trim(Piece(line, "|", 1))
    /\ record.rating = Defined(Trim(Piece(line, "|", 2)))
    /\ record.address = Defined(Trim(Piece(line, "|", 3)))
    /\ record.googleMapsUri =
          (IF FieldCount(line) >= 4 /\ Trim(Piece(line, "|", 4)) # <<>>
           THEN Defined(Trim(Piece(line, "|", 4)))
           ELSE Undefined)

OneRecordPerFullLine(services) ==
    /\ Len(services) = Cardinality(FullLines)
    /\ \A k \in 1..Len(services) : RecordOfLine(services[k], FullLine(k))

\* C11: findPharmacies and findRestaurantOptions split the response into lines
\* and each line on '|'; the lines with at least three fields yield, in line
\* order, one record each with name, rating, address and link taken by position,
\* and the other lines yield no record.
C11_PipeLinesToRecords ==
    (/\ parsed.done
     /\ parsed.responded
     /\ parsed.adapter \in {"findPharmacies", "findRestaurantOptions"}) =>
       IF parsed.adapter = "findPharmacies" \/ FullLines # {}
       THEN OneRecordPerFullLine(parsed.value)
       ELSE \A k \in 1..Len(parsed.value) :
               parsed.value[k].description # << "Best for " >> \o PipeDish

\* a full line with a link after a line that has too few fields
C11_Witness ==
    /\ parsed.done
    /\ parsed.responded
    /\ parsed.adapter = "findRestaurantOptions"
    /\ LineCount = 2
    /\ Includes(LineAt(1), "|")
    /\ FullLines = {2}
    /\ Len(parsed.value) = 1
    /\ parsed.value[1].googleMapsUri.defined

C13_DefaultWhenNothingExtracted ==
    lastCall.adapter # "none" => lastCall.value.kind \in {"data", "fallback"}

(***************************************************************************)
(* SpecEmptyHome: the home screens before any plan exists.  A free session *)
(* that chose a locked health mode is on UPGRADE; both ways out of UPGRADE *)
(* show TODAY while plan is null.                                          *)
(***************************************************************************)
InitEmptyHome ==
    /\ screen = "UPGRADE"
    /\ effectPending = FALSE
    /\ isAuthenticated = TRUE
    /\ isPremium = FALSE
    /\ generationsLeft = InitialGenerations
    /\ healthMode = "GENERAL"
    /\ plan = NoPlan
    /\ completedMealIndices = <<>>
    /\ junkCalories = 0
    /\ molecularSynergyScore = 0
    /\ genInFlight = [c \in Closures |-> 0]
    /\ verifyingLocation = FALSE
    /\ isAnalyzingWork = FALSE
    /\ analyzingHealth = FALSE
    /\ mealEdit = NoEdit
    /\ crashed = FALSE
    /\ activeTab = "Today"
    /\ loggedCalories = 0
    /\ lastGeneration = "none"
    /\ HydrationIdle
    /\ CacheIdle
    /\ JsonIdle
    /\ AuthIdle

\* the operations the home screens offer while no meal is listed
NextEmptyHome ==
    \/ UpgradeBack
    \/ handleUpgrade
    \/ \E t \in Tabs : TabChange(t)
    \/ \E text \in FactCalories : handleLogFood(text)
    \/ handleHydrate
    \/ Advance
    \/ TimerTick

SpecEmptyHome == InitEmptyHome /\ [][NextEmptyHome]_vars

\* C14: while TODAY or PROGRESS is shown with plan null, the screen renders
\* (TODAY its loading state, PROGRESS the counters with no meal) and no operation
\* of the screen fails, whichever way the screen was entered.
C14_NullPlanHomeRenders ==
    (screen \in HomeScreens /\ plan = NoPlan) =>
       /\ ~crashed
       /\ ~RenderThrows(screen, plan)
       /\ ~ConsumedThrows(completedMealIndices, plan)
       /\ getConsumedCalories = loggedCalories

\* PROGRESS with plan null after the upgrade, a logged food and a glass of water
C14_Witness ==
    /\ screen = "PROGRESS"
    /\ plan = NoPlan
    /\ isPremium
    /\ junkCalories > 0
    /\ waterIntake > 0
    /\ ~crashed

(***************************************************************************)
(* SpecAuth: LoginScreen and SignUpScreen.  signIn and signUp of the       *)
(* authentication backend resolve with a user or reject with an error; the *)
(* buttons that leave a screen stay enabled while a call is pending, and a *)
(* screen mounted again is a new component instance.                       *)
(***************************************************************************)
\* the app fields that no operation of the two screens writes
authFrame ==
    <<activeTab, effectPending, isPremium, generationsLeft, healthMode, plan, completedMealIndices,
      junkCalories, molecularSynergyScore, genInFlight, verifyingLocation, isAnalyzingWork,
      analyzingHealth, mealEdit, crashed, loggedCalories, lastGeneration>>

\* err.message of a rejected call
ErrorMessages == {"", "Invalid login credentials"}

\* the user of a resolved call: user.id and the name derived from it
Users == {[id |-> "u1", name |-> "asha"]}

\* the inline message a rejected call leaves: err.message || fallback
ErrorTextIgnoringMessage(message, fallback) == fallback

ErrorText(message, fallback) == IF message # "" THEN message ELSE fallback

FailedText(kind) == IF kind = "signIn" THEN "Login failed" ELSE "Sign up failed"

ScreenOf(kind) == IF kind = "signIn" THEN "LOGIN" ELSE "SIGNUP"

\* the component instance that issued call p is still the one on screen
Mounted(p) == screen = ScreenOf(p.kind) /\ authInstance = p.instance

InitAuth ==
    /\ AppLoaded
    /\ HydrationIdle
    /\ CacheIdle
    /\ JsonIdle
    /\ AuthIdle

\* handleLogin / handleSignUp up to the await, with valid fields
AuthStart(kind) ==
    /\ screen = ScreenOf(kind)
    /\ ~authLoading
    /\ authLoading' = TRUE
    /\ authError' = ""
    /\ authPending' = authPending \cup {[kind |-> kind, instance |-> authInstance]}
    /\ UNCHANGED <<screen, isAuthenticated, authInstance, uid, userName, isLocalGuest, signOut>>
    /\ UNCHANGED <<authFrame, hydVars, cacheVars, jsonVars>>

\* handleSignUp returning early: the validation messages
SignUpInvalid(message) ==
    /\ screen = "SIGNUP"
    /\ ~authLoading
    /\ authError' = message
    /\ UNCHANGED <<screen, isAuthenticated, authInstance, authLoading, authPending, uid,
                   userName, isLocalGuest, signOut>>
    /\ UNCHANGED <<authFrame, hydVars, cacheVars, jsonVars>>

\* the call resolves: onSuccess(result.user) of the render that issued it, then
\* finally; the screen that held the instance is left
AuthResolved(p, user) ==
    /\ p \in authPending
    /\ authPending' = authPending \ {p}
    /\ isAuthenticated' = TRUE
    /\ uid' = user.id
    /\ userName' = user.name
    /\ screen' = "LANGUAGE"
    /\ authLoading' = FALSE
    /\ authError' = ""
    /\ UNCHANGED <<authInstance, isLocalGuest, signOut>>
    /\ UNCHANGED <<authFrame, hydVars, cacheVars, jsonVars>>

\* the call rejects: setError and setLoading act on the instance that issued the
\* call, and do nothing once it is unmounted
AuthRejected(p, message) ==
    /\ p \in authPending
    /\ authPending' = authPending \ {p}
    /\ IF Mounted(p)
       THEN /\ authError' = ErrorText(message, FailedText(p.kind))
            /\ authLoading' = FALSE
       ELSE UNCHANGED <<authError, authLoading>>
    /\ UNCHANGED <<screen, isAuthenticated, authInstance, uid, userName, isLocalGuest, signOut>>
    /\ UNCHANGED <<authFrame, hydVars, cacheVars, jsonVars>>

\* onSignUp ("Create Account") and onLogin ("Already have an account?")
AuthSwitch(from, to) ==
    /\ screen = from
    /\ authInstance < MaxMounts
    /\ screen' = to
    /\ authInstance' = authInstance + 1
    /\ authLoading' = FALSE
    /\ authError' = ""
    /\ UNCHANGED <<isAuthenticated, authPending, uid, userName, isLocalGuest, signOut>>
    /\ UNCHANGED <<authFrame, hydVars, cacheVars, jsonVars>>

\* onGuest ("Continue as Guest")
onGuest ==
    /\ screen = "LOGIN"
    /\ isLocalGuest' = TRUE
    /\ isAuthenticated' = TRUE
    /\ screen' = "LANGUAGE"
    /\ authLoading' = FALSE
    /\ authError' = ""
    /\ UNCHANGED <<authInstance, authPending, uid, userName, signOut>>
    /\ UNCHANGED <<authFrame, hydVars, cacheVars, jsonVars>>

NextAuth ==
    \/ \E kind \in {"signIn", "signUp"} : AuthStart(kind)
    \/ \E message \in {"Passwords don't match", "Password must be at least 6 characters"} :
          SignUpInvalid(message)
    \/ \E p \in authPending, user \in Users : AuthResolved(p, user)
    \/ \E p \in authPending, message \in ErrorMessages : AuthRejected(p, message)
    \/ AuthSwitch("LOGIN", "SIGNUP")
    \/ AuthSwitch("SIGNUP", "LOGIN")
    \/ onGuest

SpecAuth == InitAuth /\ [][NextAuth]_vars

\* what the claim and the code agree a rejection leaves as the inline message
Shown(message, kind) ==
    IF message # "" THEN message
    ELSE IF kind = "signIn" THEN "Login failed" ELSE "Sign up failed"

\* C15 as stated: when signIn (signUp) is rejected, the error text is the inline
\* message, the visible screen stays LOGIN (SIGNUP), and isAuthenticated, uid
\* and name are unchanged.
C15_RejectionShownInline ==
    [][ \A p \in authPending, message \in ErrorMessages :
          AuthRejected(p, message) =>
             /\ authError' = Shown(message, p.kind)
             /\ screen' = ScreenOf(p.kind)
             /\ isAuthenticated' = isAuthenticated
             /\ uid' = uid
             /\ userName' = userName ]_vars

\* C15 amended: a rejected signIn (signUp) changes neither the screen nor
\* isAuthenticated, uid and name; the error text becomes the inline message, on
\* LOGIN (SIGNUP), when the screen instance that issued the call is still
\* mounted, and no message changes when the user has left that instance; the
\* session becomes authenticated only by a resolved call or the guest choice.
C15_RejectionShownWhileMounted ==
    /\ [][ \A p \in authPending, message \in ErrorMessages :
             AuthRejected(p, message) =>
                /\ screen' = screen
                /\ isAuthenticated' = isAuthenticated
                /\ uid' = uid
                /\ userName' = userName
                /\ IF screen = ScreenOf(p.kind) /\ authInstance = p.instance
                   THEN authError' = Shown(message, p.kind)
                   ELSE authError' = authError ]_vars
    /\ [][ (isAuthenticated' /\ ~isAuthenticated) =>
             \/ onGuest
             \/ \E p \in authPending, user \in Users : AuthResolved(p, user) ]_vars

\* the provider's text is shown on LOGIN and the session is as before
C15_Witness ==
    /\ screen = "LOGIN"
    /\ authError = "Invalid login credentials"
    /\ ~authLoading
    /\ ~isAuthenticated
    /\ uid = NoUid

(***************************************************************************)
(* SpecDegrade: the failure paths together.  The session has finished      *)
(* onboarding and is on PREFERENCES; the user asks for a plan and the home  *)
(* modals call findDeliveryPartners, and every request can be rejected.     *)
(***************************************************************************)
InitDegrade ==
    /\ screen = "PREFERENCES"
    /\ effectPending = FALSE
    /\ isAuthenticated = TRUE
    /\ isPremium = FALSE
    /\ generationsLeft = InitialGenerations
    /\ healthMode = "GENERAL"
    /\ plan = NoPlan
    /\ completedMealIndices = <<>>
    /\ junkCalories = 0
    /\ molecularSynergyScore = 0
    /\ genInFlight = [c \in Closures |-> 0]
    /\ verifyingLocation = FALSE
    /\ isAnalyzingWork = FALSE
    /\ analyzingHealth = FALSE
    /\ mealEdit = NoEdit
    /\ crashed = FALSE
    /\ activeTab = "Today"
    /\ loggedCalories = 0
    /\ lastGeneration = "none"
    /\ HydrationIdle
    /\ CacheIdle
    /\ JsonIdle
    /\ AuthIdle

PartnerCalls == {call \in AdapterCalls : call.adapter = "findDeliveryPartners"}

NextDegrade ==
    \/ ClickGenerate
    \/ GeneratingEffect
    \/ \E c \in Closures, p \in PlanResponses : GenerateThen(c, p)
    \/ \E c \in Closures : GenerateCatch(c)
    \/ \E t \in Tabs : TabChange(t)
    \/ \E city \in Cities, type \in PartnerTypes : findDeliveryPartners(city, type)
    \/ \E call \in PartnerCalls, outcome \in {"json", "malformed"} : Resolve(call, outcome)
    \/ \E call \in PartnerCalls : Reject(call)

SpecDegrade == InitDegrade /\ [][NextDegrade]_vars

C21_SuccessCostsOneCredit ==
    [][ \A c \in {d \in Closures : genInFlight[d] > 0}, p \in PlanResponses :
          GenerateThen(c, p)
          => /\ plan' = p
             /\ screen' = "TODAY"
             /\ generationsLeft' = IF isPremium THEN generationsLeft
                                               ELSE generationsLeft - 1 ]_vars

\* C22: a session whose healthMode is DISEASE_FOCUSED or MOLECULE_MATCH is
\* premium, and no step takes isPremium from true back to false.
C22_LockedModeOnlyForPremium ==
    /\ [](healthMode \in LockedModes => isPremium)
    /\ [][isPremium => isPremium']_vars

\* a premium session in a locked mode has logged out: it is still premium
C22_Witness ==
    /\ screen = "LOGIN"
    /\ ~isAuthenticated
    /\ isPremium
    /\ healthMode \in LockedModes

(***************************************************************************)
(* SpecCredits: the home screens of SpecHome when no generation request    *)
(* fails.  Every request that is no longer in flight has had its plan       *)
(* stored, so the plans applied are the requests issued less those pending. *)
(***************************************************************************)
NextCredits ==
    \/ \E c \in Closures, p \in PlanResponses : GenerateThen(c, p)
    \/ \E t \in Tabs : TabChange(t)
    \/ \E text \in FactCalories : handleLogFood(text)
    \/ \E index \in 0..1 : handleToggleMeal(index)
    \/ \E k \in 1..2 : RegenerateStart(k)
    \/ \E newMeal \in RegenerateResults : RegenerateDone(newMeal)

SpecCredits == InitHome /\ [][NextCredits]_vars

\* the generation responses applied so far
PlansApplied == MaxInFlight - PendingGenerations

\* C23: the plans applied to a session that is not premium are at most the
\* credits it has used, InitialGenerations - generationsLeft.
C23_PlansWithinCredits ==
    ~isPremium => PlansApplied <= InitialGenerations - generationsLeft

\* C24: generationsLeft is an integer from 0 to its initial value 3 in every
\* reachable state of the screen flow.
C24_CreditsInRange ==
    generationsLeft \in 0..InitialGenerations

\* a free session has used its last credit and was sent to UPGRADE on the next attempt
C24_Witness ==
    /\ screen = "UPGRADE"
    /\ ~isPremium
    /\ generationsLeft = 0
    /\ plan # NoPlan
    /\ lastGeneration = "resolved"

\* C25: whenever TODAY or PROGRESS is the visible screen, a plan is stored.
C25_HomeScreenHasPlan ==
    screen \in HomeScreens => plan # NoPlan

\* C26: whenever the visible screen is not LOGIN, SIGNUP or WELCOME, the session
\* is authenticated.
C26_ScreensBehindLogin ==
    screen \notin {"LOGIN", "SIGNUP", "WELCOME"} => isAuthenticated

(***************************************************************************)
(* SpecMeals: the home screens of SpecHome, where a generation may also    *)
(* return a plan with fewer meals than the plan before it.                 *)
(***************************************************************************)
PlanOneMeal == [hasMeals |-> TRUE,
                meals |-> << Meal("Dinner", "Khichdi", <<"3">>) >>,
                synergy |-> <<>>]

NextMeals ==
    \/ \E c \in Closures, p \in PlanResponses \cup {PlanOneMeal} : GenerateThen(c, p)
    \/ \E c \in Closures : GenerateCatch(c)
    \/ \E t \in Tabs : TabChange(t)
    \/ \E text \in FactCalories : handleLogFood(text)
    \/ \E index \in 0..1 : handleToggleMeal(index)
    \/ \E k \in 1..2 : RegenerateStart(k)
    \/ \E newMeal \in RegenerateResults : RegenerateDone(newMeal)

SpecMeals == InitHome /\ [][NextMeals]_vars

NoDuplicates(list) ==
    \A j, k \in 1..Len(list) : list[j] = list[k] => j = k

\* C27: while the home screens are mounted, completedMealIndices has no
\* duplicates and each of its elements is the index of a meal of the stored plan.
C27_CompletedIndicesValid ==
    ~crashed =>
       /\ NoDuplicates(completedMealIndices)
       /\ \A k \in 1..Len(completedMealIndices) : MealAt(plan, completedMealIndices[k])

(***************************************************************************)
(* SpecKeys: the four keyed adapters called with free text, one request    *)
(* answered and stored, then any further call looked up in the cache.      *)
(***************************************************************************)
MaxKeyLen == 2   \* length of a typed city, state, company, domain, dish or ingredient

KeyChars == {"p", "_"}

KeyTexts == SeqsUpTo(KeyChars, MaxKeyLen) \ {<<>>}

KeyCities == KeyTexts \cup {<< "P" >>}

\* cacheKey of generateCorporateInsights
CorpKey(company, domain, city) ==
    << "corp_struct_" >> \o company \o << "_" >> \o domain \o << "_" >> \o city

KeyOf(call) ==
    CASE call.adapter = "checkIngredientAvailability" -> IngredientKey(call.city, call.arg)
      [] call.adapter = "verifyLocationEntry" -> LocKey(call.city, call.arg)
      [] call.adapter = "findRestaurantOptions" -> RestKey(call.city, call.arg)
      [] call.adapter = "generateCorporateInsights" -> CorpKey(call.arg[1], call.arg[2], call.city)

KeyedArgs(adapter) ==
    CASE adapter = "checkIngredientAvailability" -> SeqsUpTo(KeyTexts, MaxIngredients)
      [] adapter = "verifyLocationEntry" -> KeyTexts
      [] adapter = "findRestaurantOptions" -> KeyTexts
      [] adapter = "generateCorporateInsights" -> KeyTexts \X KeyTexts

\* an adapter up to its first await: the cache lookup and, on a miss, the request
KeyedCall(adapter, city, arg) ==
    LET call == [adapter |-> adapter, city |-> city, arg |-> arg]
        key == KeyOf(call)
    IN  /\ IF CacheHas(key)
           THEN /\ lastCall' = Returned(call, key, TRUE, CacheGet(key))
                /\ UNCHANGED <<globalCache, pending, outbound>>
           ELSE /\ Requests < 1
                /\ pending' = pending (+) SetToBag({call})
                /\ outbound' = outbound (+) SetToBag({key})
                /\ UNCHANGED <<globalCache, lastCall>>
        /\ UNCHANGED <<hasApiKey, appVars, hydVars, jsonVars, authVars>>

\* the response to the prompt built from call is parsed and stored
KeyedResolve(call) ==
    LET key == KeyOf(call)
        data == ResultOf(call, "json")
    IN  /\ CopiesIn(call, pending) > 0
        /\ globalCache' = CacheSet(key, data)
        /\ lastCall' = Returned(call, key, FALSE, data)
        /\ pending' = pending (-) SetToBag({call})
        /\ UNCHANGED <<outbound, hasApiKey, appVars, hydVars, jsonVars, authVars>>

InitKeys ==
    /\ AppLoaded
    /\ HydrationIdle
    /\ JsonIdle
    /\ AuthIdle
    /\ CacheIdle

NextKeys ==
    \/ \E city \in KeyCities, arg \in KeyedArgs("checkIngredientAvailability") :
          KeyedCall("checkIngredientAvailability", city, arg)
    \/ \E city \in KeyCities, arg \in KeyedArgs("verifyLocationEntry") :
          KeyedCall("verifyLocationEntry", city, arg)
    \/ \E city \in KeyCities, arg \in KeyedArgs("findRestaurantOptions") :
          KeyedCall("findRestaurantOptions", city, arg)
    \/ \E city \in KeyCities, arg \in KeyedArgs("generateCorporateInsights") :
          KeyedCall("generateCorporateInsights", city, arg)
    \/ \E call \in BagToSet(pending) : KeyedResolve(call)

SpecKeys == InitKeys /\ [][NextKeys]_vars

Elements(list) == {list[k] : k \in 1..Len(list)}

\* two calls that ask the same question: the same adapter, cities equal up to
\* letter case, and the same state, dish, company and domain, or ingredient set
SameRequest(a, b) ==
    /\ a.adapter = b.adapter
    /\ toLowerCase(a.city) = toLowerCase(b.city)
    /\ IF a.adapter = "checkIngredientAvailability"
       THEN Elements(a.arg) = Elements(b.arg)
       ELSE a.arg = b.arg

\* C28: a call answered from the cache gets a value that was stored for the
\* same request: no two different requests share a cache key.
C28_KeysCollisionFree ==
    (lastCall # NoCall /\ lastCall.hit)
       => SameRequest(lastCall.value.for, lastCall)

\* C29: every value held by the cache came from a well-formed response: the
\* cache holds no {} of a failed parse and no fallback.
C29_CacheHoldsOnlyWellFormed ==
    \A e \in globalCache : e.value.kind = "data"

(***************************************************************************)
(* SpecLogout: a guest or signed-in session on the home screens, with      *)
(* handleLogout split at its await and signOut() resolving or rejecting.   *)
(***************************************************************************)
Identities ==
    {[isLocalGuest |-> TRUE, uid |-> NoUid, name |-> ""]}
    \cup {[isLocalGuest |-> FALSE, uid |-> u.id, name |-> u.name] : u \in Users}

InitLogout ==
    /\ screen = "GENERATING"
    /\ effectPending = FALSE
    /\ isAuthenticated = TRUE
    /\ isPremium = FALSE
    /\ generationsLeft = InitialGenerations
    /\ healthMode = "GENERAL"
    /\ plan = NoPlan
    /\ completedMealIndices = <<>>
    /\ junkCalories = 0
    /\ molecularSynergyScore = 0
    /\ genInFlight = [c \in Closures |-> IF c = FreeClosure THEN MaxInFlight ELSE 0]
    /\ verifyingLocation = FALSE
    /\ isAnalyzingWork = FALSE
    /\ analyzingHealth = FALSE
    /\ mealEdit = NoEdit
    /\ crashed = FALSE
    /\ activeTab = "Today"
    /\ loggedCalories = 0
    /\ lastGeneration = "none"
    /\ HydrationIdle
    /\ CacheIdle
    /\ JsonIdle
    /\ authInstance = 1
    /\ authLoading = FALSE
    /\ authError = ""
    /\ authPending = {}
    /\ signOut = "none"
    /\ \E id \in Identities :
          /\ isLocalGuest = id.isLocalGuest
          /\ uid = id.uid
          /\ userName = id.name

logoutFrame ==
    <<effectPending, lastGeneration, isPremium, generationsLeft, healthMode, plan,
      completedMealIndices, junkCalories, molecularSynergyScore, loggedCalories, asyncVars,
      crashed>>

\* handleLogout up to await signOut() (TODAY "Logout", rendered once a plan exists)
handleLogoutAwait ==
    /\ Idle
    /\ screen = "TODAY"
    /\ plan # NoPlan
    /\ signOut # "pending"    \* one signOut() call in flight at a time
    /\ signOut' = "pending"
    /\ UNCHANGED <<appVars, hydVars, cacheVars, jsonVars, authInstance, authLoading, authError,
                   authPending, uid, userName, isLocalGuest>>

\* signOut() resolved: the rest of the try block
handleLogoutThen ==
    /\ signOut = "pending"
    /\ signOut' = "resolved"
    /\ LoggedOut
    /\ UNCHANGED logoutFrame

\* (a catch that sends the user to LOGIN all the same)
handleLogoutCatchLeaving ==
    /\ signOut = "pending"
    /\ signOut' = "rejected"
    /\ screen' = "LOGIN"
    /\ UNCHANGED <<activeTab, hydVars, cacheVars, jsonVars, authInstance, authLoading, authError,
                   authPending, uid, userName, isLocalGuest, isAuthenticated, logoutFrame>>
\* signOut() rejected: the catch block logs the error
handleLogoutCatch ==
    /\ signOut = "pending"
    /\ signOut' = "rejected"
    /\ UNCHANGED <<appVars, hydVars, cacheVars, jsonVars, authInstance, authLoading, authError,
                   authPending, uid, userName, isLocalGuest>>

NextLogout ==
    \/ \E c \in Closures, p \in {PlanA, PlanB} : GenerateThen(c, p)
    \/ \E c \in Closures : GenerateCatch(c)
    \/ \E t \in Tabs : TabChange(t)
    \/ \E text \in FactCalories : handleLogFood(text)
    \/ \E index \in 0..1 : handleToggleMeal(index)
    \/ handleLogoutAwait
    \/ handleLogoutThen
    \/ handleLogoutCatch
    \/ onGuest

SpecLogout == InitLogout /\ [][NextLogout]_vars

\* the fields of userState and progress other than isAuthenticated, isLocalGuest and uid
otherSessionFields ==
    <<userName, isPremium, generationsLeft, healthMode, plan, completedMealIndices,
      junkCalories, molecularSynergyScore, waterIntake, nextHydrationSet, lastResetDate>>

\* C30: when signOut() resolves, handleLogout sets isAuthenticated and
\* isLocalGuest to false, clears uid and shows LOGIN, and no other session field
\* changes; when signOut() rejects, no session field and not the screen changes.
C30_LogoutFrame ==
    /\ [][ handleLogoutThen
            => /\ ~isAuthenticated' /\ ~isLocalGuest' /\ uid' = NoUid /\ screen' = "LOGIN"
               /\ UNCHANGED otherSessionFields ]_vars
    /\ [][ handleLogoutCatch
            => UNCHANGED <<screen, isAuthenticated, isLocalGuest, uid, otherSessionFields>> ]_vars

\* a signed-in session with a plan and a completed meal has been logged out
C30_Witness ==
    /\ signOut = "resolved"
    /\ screen = "LOGIN"
    /\ ~isAuthenticated /\ ~isLocalGuest /\ uid = NoUid
    /\ userName # ""
    /\ plan # NoPlan
    /\ completedMealIndices # <<>>

====
